---- MODULE Spec2Model ----
(***************************************************************************)
(* Resume indexing / JD matching agents (src/resume_agent.py) run behind   *)
(* the Flask trigger server (src/server.py).                               *)
(*                                                                         *)
(* Request handlers and the background agent thread interleave at the      *)
(* granularity of their lock sections and of the calls they make to the    *)
(* collaborators (document store, vector index, embedding model).          *)
(* Scores are cosine similarities in hundredths (0.90 is 90).              *)
(***************************************************************************)
EXTENDS Integers, Sequences, FiniteSets, TLC

\* ---------------------------------------------------------------- bounds
NApps == 3
NReqs == 2
MaxRuns == 2
\* store/index failures and re-queues the environment may produce in all
MaxEvents == 1

\* ------------------------------------------------------ program constants
BATCH_SIZE == 2
CutoffPct == 63

Apps == 1..NApps
Reqs == 1..NReqs
ValidModes == {"index", "matching", "both"}
None == "None"
Handle == "client"

VARIABLES
    \* server.py module state
    agent_running, last_run, last_error,
    \* one slot per in-flight /run-agent request: position, mode, last answer
    rpc, agent_mode, resp,
    \* last answer of GET /status
    status_running,
    \* resume_agent.py module state (lazily initialised handles)
    s3, applications, qdrant, model,
    \* environment: which collaborators are configured / loadable, whether
    \* the database handle answers get(name), and the similarity of each
    \* record's resume to the description of its job, what the S3 object
    \* under each record's key holds
    env, score, s3_objects,
    \* the applications collection and the Qdrant collection
    docs, collection, collection_created,
    \* the background thread started by request slot t, and its locals
    tpc, task_mode, exc, calls,
    batch, points,
    ai_companies, open_jobs, search_results, cutoff,
    \* bookkeeping of the environment's budget and of upserts per record
    runs, faults, glitches, requeues, upserted, last_mode, queried

server_vars == <<agent_running, last_run, last_error, rpc, agent_mode, resp, status_running>>
handle_vars == <<s3, applications, qdrant, model>>
env_vars == <<env, score, s3_objects>>
data_vars == <<docs, collection, collection_created>>
index_locals == <<batch, points>>
match_locals == <<ai_companies, open_jobs, search_results, cutoff>>
thread_vars == <<tpc, task_mode, exc, calls, index_locals, match_locals>>
ghost_vars == <<runs, faults, glitches, requeues, upserted, last_mode, queried>>
vars == <<server_vars, handle_vars, env_vars, data_vars, thread_vars, ghost_vars>>

\* ------------------------------------------------------------ helpers

\* uuid5(NAMESPACE_DNS, mongo_id): a deterministic, injective map of record
\* ids into the point-id space (the numbers above UuidBase)
UuidBase == 100
\* a generated identity (uuid4) in place of the derived one
mongo_id_to_uuid_generated(mongo_id) ==
    UuidBase + mongo_id.hex + (NApps + 1) * (1 + Cardinality(collection))
mongo_id_to_uuid(mongo_id) == UuidBase + mongo_id.hex

\* the _id of a document is an ObjectId (what the store generates) or a string
\* (what a client may supply); hex is the record the id belongs to
IdTypes == {"ObjectId", "str"}
MongoId(type, hex) == [type |-> type, hex |-> hex]
\* str(x): the hex string of an ObjectId, a string itself
str(x) == [type |-> "str", hex |-> x.hex]

\* PointStruct(id, vector, payload) of the document app, lines 194-209
PointStruct(app) ==
    LET app_id == str(app._id)
    IN [id |-> mongo_id_to_uuid(app_id), application_id |-> app_id, job_id |-> app.jobID]

\* qdrant.upsert: insert or overwrite by point id
Upsert(coll, pts) ==
    LET ids == {pts[i].id : i \in 1..Len(pts)}
    IN {p \in coll : p.id \notin ids} \cup {pts[i] : i \in 1..Len(pts)}

\* the filter without its resume_status clause
Eligible_any_status(d) ==
    /\ d.resume = "http"
    /\ d.rag_uploaded \in {"false", "False", "absent"}

\* the filter without its resume clause
Eligible_any_resume(d) ==
    /\ d.resume_status = "open"
    /\ d.rag_uploaded \in {"false", "False", "absent"}

\* the Mongo filter of the indexing poll
Eligible(d) ==
    /\ d.resume = "http"
    /\ d.resume_status = "open"
    /\ d.rag_uploaded \in {"false", "False", "absent"}

EligibleApps(ds) == {a \in Apps : Eligible(ds[a])}

RECURSIVE Ascending(_)
Ascending(S) ==
    IF S = {} THEN <<>>
    ELSE LET m == CHOOSE x \in S : \A y \in S : x <= y
         IN <<m>> \o Ascending(S \ {m})

Take(s, n) == SubSeq(s, 1, IF Len(s) < n THEN Len(s) ELSE n)

\* list(applications.find(query).limit(BATCH_SIZE)), natural order
FindBatch(ds) == Take(Ascending(EligibleApps(ds)), BATCH_SIZE)

\* the events the environment still has: failures of store and index calls
\* (faults), failures of S3 and of the embedding model (glitches), re-queues
\* (a call on a collection that was never created raises whatever is left)
Spent == faults + glitches + requeues
Budget == IF Spent < MaxEvents THEN MaxEvents - Spent ELSE 0
\* outcomes of a store or index call that may raise
CallOutcomes == IF Budget >= 1 THEN {TRUE, FALSE} ELSE {TRUE}
\* outcomes of two collaborator calls in a row: both answer, the first
\* raises, or the first answers and the second raises
PairOutcomes == IF Budget >= 1 THEN {"ok", "first_raises", "second_raises"} ELSE {"ok"}
Fault(ok) == faults' = IF ok THEN faults ELSE faults + 1

Running(t) == tpc[t] # "none"

\* the configuration of the process: which credentials are set (lines 82, 92,
\* 98), whether the embedding model loads (lines 108-114), and whether the
\* database handle answers get(name) as lines 246-248 expect: the Database
\* of pymongo does not, its attribute get is the collection named "get"
Flags == [s3 : BOOLEAN, mongo : BOOLEAN, qdrant : BOOLEAN, model : BOOLEAN, db_get : BOOLEAN]
AllSet == [s3 |-> TRUE, mongo |-> TRUE, qdrant |-> TRUE, model |-> TRUE, db_get |-> TRUE]
\* the process with every credential set: line 94 makes db the Database of
\* pymongo, whatever the configuration
Deployed == [AllSet EXCEPT !.db_get = FALSE]
\* every combination of store, index and model, and the process without S3
Envs == {e \in Flags : ~e.db_get /\ (e.s3 \/ (e.mongo /\ e.qdrant /\ e.model))}
\* the process with every credential set, and without its document store
ServerEnvs == {Deployed, [Deployed EXCEPT !.mongo = FALSE]}
\* the handle of line 94, and a handle that answers get(name), on which
\* lines 251-309 run: the latter is no state of the process as written, it
\* shows what the code behind line 246 would write
DbEnvs == {Deployed, AllSet}

\* ------------------------------------------------------------ fixtures

\* companies, job statuses and jobs as the matching agent reads them; a
\* description is a sequence of tokens: tags, whitespace, words
Companies == <<[id |-> "c1", aiFeaturesEnabled |-> TRUE],
               [id |-> "c2", aiFeaturesEnabled |-> FALSE],
               [id |-> "c3", aiFeaturesEnabled |-> TRUE]>>
JobStatuses == <<[id |-> "s1", company_id |-> "c1", jobStatus |-> "Open"],
                 [id |-> "x1", company_id |-> "c1", jobStatus |-> "Closed"],
                 [id |-> "s2", company_id |-> "c2", jobStatus |-> "Open"],
                 [id |-> "s3", company_id |-> "c3", jobStatus |-> "Open"]>>
Jobs == <<[id |-> "j1", company_id |-> "c1", status |-> "s1",
           description |-> <<"<p>", "Build", " ", "<b>", "APIs", "</b>", "</p>">>],
          [id |-> "j2", company_id |-> "c1", status |-> "x1",
           description |-> <<"Closed", " ", "role">>],
          [id |-> "j3", company_id |-> "c2", status |-> "s2",
           description |-> <<"Other", " ", "firm">>],
          [id |-> "j4", company_id |-> "c1", status |-> "s1",
           description |-> <<"<p>", " ", "</p>">>],
          [id |-> "j5", company_id |-> "c3", status |-> "s3",
           description |-> <<"Sell", " ", "things">>],
          [id |-> "j6", company_id |-> "c1", status |-> "s1",
           description |-> <<" ", " ">>]>>

\* the jobID field of the application records
JobOf(a) == CASE a = 1 -> "j1" [] a = 2 -> "j1" [] a = 3 -> "j5"
              [] a = 4 -> "j2" [] OTHER -> "j4"

\* what the S3 object under a record's key holds: a document with text, a
\* document without any text, bytes under an image key (.jpg, .jpeg, .png)
\* that are no image
ObjectKinds == {"text", "blank", "unreadable"}
Readable == [a \in Apps |-> "text"]
\* every object readable, or the first blank and the second unreadable
StoredObjects ==
    {Readable,
     [a \in Apps |-> CASE a = 1 -> "blank" [] a = 2 -> "unreadable" [] OTHER -> "text"]}

NoScore == <<>>
\* 0.90, 0.60 and so on, in hundredths
DefaultScore(a) == CASE a = 1 -> <<90>> [] a = 2 -> <<30>> [] OTHER -> <<60>>

\* ------------------------------------------------------------ Init

Doc(id, r, j, st, rag) ==
    [_id |-> id, resume |-> r, jobID |-> j, resume_status |-> st, rag_uploaded |-> rag,
     error |-> "absent"]

\* freshly submitted applications: all with a resume URL (string ids), all
\* but the last of them (ObjectIds), or none of them
FreshDocs ==
    {[a \in Apps |-> Doc(MongoId("str", a), "http", JobOf(a), "open", "absent")]}
    \cup {[a \in Apps |-> Doc(MongoId("ObjectId", a), IF a = NApps THEN "other" ELSE "http",
                              JobOf(a), "open", "absent")]}
    \cup {[a \in Apps |-> Doc(MongoId(ty, a), "other", JobOf(a), "open", "absent")] :
            ty \in IdTypes}

InitServer ==
    /\ agent_running = FALSE
    /\ last_run = 0
    /\ last_error = None
    /\ rpc = [r \in Reqs |-> "idle"]
    /\ agent_mode = [r \in Reqs |-> None]
    /\ resp = [r \in Reqs |-> 0]
    /\ status_running = FALSE
    /\ s3 = None /\ applications = None /\ qdrant = None /\ model = None
    /\ tpc = [t \in Reqs |-> "none"]
    /\ task_mode = [t \in Reqs |-> None]
    /\ exc = [t \in Reqs |-> None]
    /\ calls = [t \in Reqs |-> {}]
    /\ batch = [t \in Reqs |-> <<>>]
    /\ points = [t \in Reqs |-> <<>>]
    /\ ai_companies = [t \in Reqs |-> <<>>]
    /\ open_jobs = [t \in Reqs |-> <<>>]
    /\ search_results = [t \in Reqs |-> <<>>]
    /\ cutoff = [t \in Reqs |-> 0]
    /\ runs = 0 /\ faults = 0 /\ glitches = 0 /\ requeues = 0
    /\ upserted = [a \in Apps |-> 0]
    /\ last_mode = None
    /\ queried = {}

InitData(es, os, ds) ==
    /\ env \in es
    /\ score = [a \in Apps |-> DefaultScore(a)]
    /\ s3_objects \in os
    /\ docs \in ds
    /\ collection = {}
    /\ collection_created = FALSE

Init == InitServer /\ InitData(Envs, StoredObjects, FreshDocs)

\* one application with a resume URL, or none
FewDocs ==
    {[a \in Apps |-> Doc(MongoId("str", a), IF a = x THEN "http" ELSE "other", JobOf(a),
                         "open", "absent")] : x \in {0, 1}}

InitFew == InitServer /\ InitData(ServerEnvs, {Readable}, FewDocs)

\* an index built by earlier runs: every record indexed, its point in the
\* collection; the records apply to the jobs of JobOf or all to the first job,
\* and the similarities are arbitrary
ScoreValues == {<<0 - 50>>, <<0>>, <<30>>, <<60>>, <<63>>, <<70>>, <<90>>, <<100>>, NoScore}
IndexedDocs ==
    {[a \in Apps |-> Doc(MongoId(ty, a), "http", IF same THEN "j1" ELSE JobOf(a),
                         "indexed", "true")] : same \in BOOLEAN, ty \in IdTypes}

\* an index built by earlier runs over applications to any of the jobs: the
\* open jobs of the AI-enabled companies, a closed job, the job of a company
\* without AI features
AppliedJobs == {"j1", "j2", "j3", "j5"}
AnyJobDocs ==
    {[a \in Apps |-> Doc(MongoId(ty, a), "http", jobOf[a], "indexed", "true")] :
        jobOf \in [Apps -> AppliedJobs], ty \in IdTypes}

InitJobs ==
    /\ InitServer
    /\ env \in DbEnvs
    /\ score = [a \in Apps |-> DefaultScore(a)]
    /\ s3_objects = Readable
    /\ docs \in AnyJobDocs
    /\ collection = {PointStruct(docs[a]) : a \in Apps}
    /\ collection_created = TRUE

InitMatch ==
    /\ InitServer
    /\ env \in ServerEnvs
    /\ score \in [Apps -> ScoreValues]
    /\ s3_objects = Readable
    /\ docs \in IndexedDocs
    /\ collection = {PointStruct(docs[a]) : a \in Apps}
    /\ collection_created = TRUE

\* ------------------------------------------------------------ server.py

\* RunAgentEnter without the test of _agent_running
RunAgentEnter_unguarded(r, m) ==
    /\ rpc[r] = "idle"
    /\ ~Running(r)
    /\ runs < MaxRuns
    /\ agent_running' = TRUE
    /\ rpc' = [rpc EXCEPT ![r] = "claimed"]
    /\ agent_mode' = [agent_mode EXCEPT ![r] = m]
    /\ resp' = [resp EXCEPT ![r] = 0]
    /\ UNCHANGED <<last_run, last_error, status_running, handle_vars, env_vars, data_vars,
                   thread_vars, ghost_vars>>

\* run_agent, lines 61-64: the guarded test-and-set
RunAgentEnter(r, m) ==
    /\ rpc[r] = "idle"
    /\ ~Running(r)
    /\ runs < MaxRuns
    /\ IF agent_running
       THEN /\ resp' = [resp EXCEPT ![r] = 409]
            /\ UNCHANGED <<agent_running, rpc, agent_mode>>
       ELSE /\ agent_running' = TRUE
            /\ rpc' = [rpc EXCEPT ![r] = "claimed"]
            /\ agent_mode' = [agent_mode EXCEPT ![r] = m]
            /\ resp' = [resp EXCEPT ![r] = 0]
    /\ UNCHANGED <<last_run, last_error, status_running, handle_vars, env_vars, data_vars,
                   thread_vars, ghost_vars>>

\* run_agent, lines 66-70: invalid mode, the guard is given back
RunAgentInvalid(r) ==
    /\ rpc[r] = "claimed"
    /\ agent_mode[r] \notin ValidModes
    /\ agent_running' = FALSE
    /\ rpc' = [rpc EXCEPT ![r] = "idle"]
    /\ agent_mode' = [agent_mode EXCEPT ![r] = None]
    /\ resp' = [resp EXCEPT ![r] = 400]
    /\ UNCHANGED <<last_run, last_error, status_running, handle_vars, env_vars,
                   data_vars, thread_vars, ghost_vars>>

\* run_agent, lines 72-73: the thread is started; the handler has not
\* answered yet
RunAgentStart(r) ==
    /\ rpc[r] = "claimed"
    /\ agent_mode[r] \in ValidModes
    /\ rpc' = [rpc EXCEPT ![r] = "started"]
    /\ tpc' = [tpc EXCEPT ![r] = IF agent_mode[r] \in {"index", "both"}
                                  THEN "try_index" ELSE "try_match"]
    /\ task_mode' = [task_mode EXCEPT ![r] = agent_mode[r]]
    /\ runs' = runs + 1
    /\ UNCHANGED <<agent_running, last_run, last_error, agent_mode, resp, status_running,
                   handle_vars, env_vars, data_vars, exc, calls, index_locals,
                   match_locals, faults, requeues, upserted, last_mode, queried, glitches>>

\* run_agent, lines 75-78: 202 is answered, while the thread runs or after it
\* ended
RunAgentAnswer(r) ==
    /\ rpc[r] = "started"
    /\ rpc' = [rpc EXCEPT ![r] = "idle"]
    /\ agent_mode' = [agent_mode EXCEPT ![r] = None]
    /\ resp' = [resp EXCEPT ![r] = 202]
    /\ UNCHANGED <<agent_running, last_run, last_error, status_running, handle_vars,
                   env_vars, data_vars, thread_vars, ghost_vars>>

\* status, lines 82-89
Status ==
    /\ status_running' = agent_running
    /\ UNCHANGED <<agent_running, last_run, last_error, rpc, agent_mode, resp,
                   handle_vars, env_vars, data_vars, thread_vars, ghost_vars>>

\* ------------------------------------------------------------ resume_agent.py

\* init_resources: every handle is built once, when its configuration is there.
\* Building the Qdrant client (line 99) is followed by collection_exists (line
\* 101) and, when the collection is missing, create_collection (line 102);
\* neither call is guarded, so either can raise out of init_resources, with the
\* client already assigned and the embedding model (lines 108-114) not loaded
QdrantBuilt == qdrant = None /\ env.qdrant
InitOutcomes ==
    IF QdrantBuilt /\ Budget >= 1
    THEN {"ok", "collection_exists_raises"} \cup
         (IF collection_created THEN {} ELSE {"create_collection_raises"})
    ELSE {"ok"}
InitCalls(o) ==
    IF QdrantBuilt
    THEN {"collection_exists"} \cup
         (IF ~collection_created /\ o # "collection_exists_raises"
          THEN {"create_collection"} ELSE {})
    ELSE {}
init_resources(o) ==
    /\ s3' = IF s3 = None /\ env.s3 THEN Handle ELSE s3
    /\ applications' = IF applications = None /\ env.mongo THEN Handle ELSE applications
    /\ qdrant' = IF QdrantBuilt THEN Handle ELSE qdrant
    /\ collection_created' = (collection_created \/ (QdrantBuilt /\ o = "ok"))
    /\ model' = IF o = "ok" /\ model = None /\ env.model THEN Handle ELSE model

\* the entry checks without the one of the embedding model
CollaboratorsReady_no_model == applications' # None /\ qdrant' # None

\* the three entry checks of both agents, made on the handles init_resources left
CollaboratorsReady == applications' # None /\ qdrant' # None /\ model' # None

\* an exception leaves the agent and reaches the except clause of _run_agent_task
Raise(t, e) ==
    /\ exc' = [exc EXCEPT ![t] = e]
    /\ tpc' = [tpc EXCEPT ![t] = "except"]

\* where _run_agent_task continues when resume_indexing_agent returns
AfterIndex(t) == IF task_mode[t] = "both" THEN "try_match" ELSE "try_ok"

\* resume_indexing_agent, lines 158-170
IndexEntry(t) ==
    /\ tpc[t] = "try_index"
    /\ \E o \in InitOutcomes :
        /\ init_resources(o)
        /\ Fault(o = "ok")
        /\ calls' = [calls EXCEPT ![t] = @ \cup InitCalls(o)]
        /\ IF o # "ok"
           THEN Raise(t, "IndexError")
           ELSE /\ tpc' = [tpc EXCEPT ![t] =
                             IF CollaboratorsReady THEN "idx_poll" ELSE AfterIndex(t)]
                /\ exc' = exc
    /\ UNCHANGED <<server_vars, env_vars, docs, collection, task_mode, index_locals,
                   match_locals, runs, requeues, upserted, last_mode, queried, glitches>>

\* resume_indexing_agent, lines 173-191: one poll of the eligible records,
\* count_documents (line 183) and then find (line 186)
IndexPoll(t) ==
    /\ tpc[t] = "idx_poll"
    /\ \E o \in PairOutcomes :
        /\ Fault(o = "ok")
        /\ calls' = [calls EXCEPT ![t] = @ \cup {"count_documents"}
                                            \cup (IF o = "first_raises" THEN {} ELSE {"find"})]
        /\ IF o = "ok"
           THEN /\ batch' = [batch EXCEPT ![t] = FindBatch(docs)]
                /\ points' = [points EXCEPT ![t] = <<>>]
                /\ tpc' = [tpc EXCEPT ![t] =
                             IF FindBatch(docs) = <<>> THEN AfterIndex(t) ELSE "idx_record"]
                /\ exc' = exc
           ELSE /\ Raise(t, "StoreError")
                /\ UNCHANGED <<batch, points>>
    /\ UNCHANGED <<server_vars, handle_vars, env_vars, data_vars, task_mode, match_locals,
                   runs, requeues, upserted, last_mode, queried, glitches>>

\* what the chain of lines 198-212 can do for one record:
\*   indexed          extraction, embedding and the status write succeed
\*   s3_missing       extract_text_from_s3 finds no S3 client (line 124)
\*   download_failed  get_object raises
\*   extract_failed   the object holds no text (line 150)
\*   encode_failed    model.encode raises (line 199)
\*   mark_failed      the status write of line 212 raises, after the point was built
\*   extract_raises   the library reading the object raises (lines 129-147)
\* what extract_text_from_s3 does once get_object answered is decided by the
\* object stored under the key of record a
ChainOutcomes(a) ==
    IF s3 = None THEN {"s3_missing"}
    ELSE {"download_failed"}
         \cup CASE s3_objects[a] = "blank" -> {"extract_failed"}
                [] s3_objects[a] = "unreadable" -> {"extract_raises"}
                [] OTHER -> {"indexed", "encode_failed", "mark_failed"}

\* an outcome of the per-record try/except: what the chain does, and whether
\* the write of the except clause (line 215) answers
RecordOutcomes(a) ==
    {o \in [chain : ChainOutcomes(a), marked : BOOLEAN] : o.chain = "indexed" => o.marked}

\* the store failures an outcome takes
OutcomeFaults(o) ==
    (IF o.chain = "mark_failed" THEN 1 ELSE 0) + (IF o.marked THEN 0 ELSE 1)

\* the failures of S3 and of the embedding model an outcome takes
OutcomeGlitches(o) == IF o.chain \in {"download_failed", "encode_failed"} THEN 1 ELSE 0

\* the collaborator calls of the chain; a status write follows in every case
ChainCalls(c) ==
    CASE c = "s3_missing" -> {}
      [] c \in {"download_failed", "extract_failed", "extract_raises"} -> {"get_object"}
      [] OTHER -> {"get_object", "encode"}

\* str(e) of the exception of Image.open (line 133) on bytes that are no
\* image; the unreadable objects of the fixtures sit under image keys (a PDF
\* key would store the message of convert_from_bytes, line 147, instead)
UnreadableError == "cannot identify image file"

\* str(e) of the exception the chain raises
ChainError(c) ==
    CASE c = "s3_missing" -> "S3 client not configured"
      [] c = "download_failed" -> "S3Error"
      [] c = "extract_failed" -> "No text extracted"
      [] c = "extract_raises" -> UnreadableError
      [] c = "encode_failed" -> "EmbeddingError"
      [] OTHER -> "StoreError"

\* the point is appended (line 200) before the status write (line 212)
PointBuilt(o) == o.chain \in {"indexed", "mark_failed"}

\* the $set of line 215 without the status
SetFailed_keeps_open(d, e) == [d EXCEPT !.error = e]

\* the $set of line 212 and the $set of line 215
SetIndexed(d) == [d EXCEPT !.resume_status = "indexed", !.rag_uploaded = "true"]
SetFailed(d, e) == [d EXCEPT !.resume_status = "failed", !.error = e]

\* resume_indexing_agent, lines 193-216: one record of the batch
IndexRecord(t) ==
    /\ tpc[t] = "idx_record"
    /\ batch[t] # <<>>
    /\ LET a == Head(batch[t]) IN
       \E o \in RecordOutcomes(a) :
        /\ OutcomeFaults(o) + OutcomeGlitches(o) <= Budget
        /\ faults' = faults + OutcomeFaults(o)
        /\ glitches' = glitches + OutcomeGlitches(o)
        /\ calls' = [calls EXCEPT ![t] = @ \cup ChainCalls(o.chain) \cup {"update_one"}]
        /\ points' = [points EXCEPT ![t] =
                        IF PointBuilt(o) THEN Append(@, PointStruct(docs[a])) ELSE @]
        /\ docs' = IF o.chain = "indexed" THEN [docs EXCEPT ![a] = SetIndexed(@)]
                   ELSE IF o.marked THEN [docs EXCEPT ![a] = SetFailed(@, ChainError(o.chain))]
                   ELSE docs
        /\ IF ~o.marked
           THEN /\ Raise(t, "StoreError")
                /\ batch' = batch
           ELSE /\ batch' = [batch EXCEPT ![t] = Tail(@)]
                /\ tpc' = [tpc EXCEPT ![t] =
                             IF Tail(batch[t]) = <<>> THEN "idx_upsert" ELSE "idx_record"]
                /\ exc' = exc
    /\ UNCHANGED <<server_vars, handle_vars, env_vars, collection, collection_created,
                   task_mode, match_locals, runs, requeues, upserted, last_mode, queried>>

PointApps(pts) == {pts[i].application_id.hex : i \in 1..Len(pts)}

\* a call on the Qdrant collection: it raises when the collection was never
\* created, which is the case after init_resources raised at line 101 or 102
\* (the client is assigned, so no later run ensures the collection)
IndexCallOutcomes == IF collection_created THEN CallOutcomes ELSE {FALSE}

\* resume_indexing_agent, lines 218-222: the batch upsert, then the next poll
IndexUpsert(t) ==
    /\ tpc[t] = "idx_upsert"
    /\ IF points[t] = <<>>
       THEN /\ tpc' = [tpc EXCEPT ![t] = "idx_poll"]
            /\ UNCHANGED <<collection, calls, exc, faults, upserted>>
       ELSE \E ok \in IndexCallOutcomes :
            /\ Fault(ok)
            /\ calls' = [calls EXCEPT ![t] = @ \cup {"upsert"}]
            /\ IF ok
               THEN /\ collection' = Upsert(collection, points[t])
                    /\ upserted' = [a \in Apps |->
                          IF a \in PointApps(points[t]) /\ upserted[a] < 2
                          THEN upserted[a] + 1 ELSE upserted[a]]
                    /\ tpc' = [tpc EXCEPT ![t] = "idx_poll"]
                    /\ exc' = exc
               ELSE /\ Raise(t, "IndexError")
                    /\ UNCHANGED <<collection, upserted>>
    /\ UNCHANGED <<server_vars, handle_vars, env_vars, docs, collection_created, task_mode,
                   index_locals, match_locals, runs, requeues, last_mode, queried,
                   glitches>>

\* ------------------------------------------------------------ jd_matching_agent

Tags == {"<p>", "</p>", "<b>", "</b>"}
Spaces == {" "}
IsWord(tok) == tok \notin Tags \cup Spaces

\* clean_html: the tags are dropped, whitespace is collapsed and trimmed; what
\* is left is the words of the text, one space apart
clean_html(raw_html) == SelectSeq(raw_html, IsWord)

\* job_description.strip() is empty (line 274, on the raw description)
StripEmpty(description) == \A i \in 1..Len(description) : description[i] \in Spaces

IsAiCompany(c) == c.aiFeaturesEnabled
\* list(companies.find({"aiFeaturesEnabled": True}))
AiCompanies == SelectSeq(Companies, IsAiCompany)

\* list(job_statuses.find({"company_id": company_id, "jobStatus": "Open"}))
OpenStatusDocs(company_id) ==
    LET Match(s) == s.company_id = company_id /\ s.jobStatus = "Open"
    IN SelectSeq(JobStatuses, Match)

\* list(jobs.find({"company_id": company_id, "status": str(open_status_id)}))
OpenJobsOf(company_id, open_status_id) ==
    LET Match(j) == j.company_id = company_id /\ j.status = open_status_id
    IN SelectSeq(Jobs, Match)

\* line 304, score in hundredths against the cutoff in ten-thousandths
StatusFor(sc, cut) == IF sc * 100 >= cut THEN "selected" ELSE "rejected"

\* the order of a similarity query: point p may stand before point q when
\* its score is not the lower one; the order among equal scores, and the
\* place of a result without score, is the index's choice
Before(p, q) ==
    LET sp == score[p.application_id.hex]
        sq == score[q.application_id.hex]
    IN (sp # NoScore /\ sq # NoScore) => sp[1] >= sq[1]

\* the orders in which the index may return the points of S
Ranked(S) ==
    LET n == Cardinality(S)
        Orders == {o \in [1..n -> S] :
                     \A i, j \in 1..n : i < j => (o[i] # o[j] /\ Before(o[i], o[j]))}
    IN {[i \in 1..n |-> [application_id |-> o[i].application_id, job_id |-> o[i].job_id,
                          score |-> score[o[i].application_id.hex]]] : o \in Orders}

\* what qdrant.query_points(..., limit=100000, with_payload=True).points can
\* be (line 282)
QueryPoints(coll) == Ranked(coll)

\* the results as the query returns them
ResultsOfJob_unfiltered(results, job_id) == results

\* line 283: the results of the job under evaluation
ResultsOfJob(results, job_id) ==
    LET Mine(r) == r.job_id = job_id IN SelectSeq(results, Mine)

\* line 288
ScoresOf(results) ==
    {results[i].score[1] : i \in {k \in 1..Len(results) : results[k].score # NoScore}}

Max(S) == CHOOSE x \in S : \A y \in S : y <= x

\* line 294, in ten-thousandths: best_score * 0.63
Cutoff(best_score) == best_score * CutoffPct

\* the company loop moves to its next company, or the agent returns (line 311)
CompanyDone(t) ==
    /\ ai_companies' = [ai_companies EXCEPT ![t] = Tail(@)]
    /\ open_jobs' = [open_jobs EXCEPT ![t] = <<>>]
    /\ tpc' = [tpc EXCEPT ![t] =
                 IF Tail(ai_companies[t]) = <<>> THEN "try_ok" ELSE "m_company"]

\* the job loop moves to its next job, or the company is done
JobDone(t) ==
    IF Tail(open_jobs[t]) # <<>>
    THEN /\ open_jobs' = [open_jobs EXCEPT ![t] = Tail(@)]
         /\ tpc' = [tpc EXCEPT ![t] = "m_job"]
         /\ ai_companies' = ai_companies
    ELSE CompanyDone(t)

\* str(e) of the TypeError raised by calling the collection named "get"
NotCallable ==
    "'Collection' object is not callable. If you meant to call the 'get' method on a 'Database' object it is failing because no such method exists."

\* jd_matching_agent, lines 233-254: init_resources, the entry checks, the
\* three db.get(...) of lines 246-248 and the companies query of line 251
MatchEntry(t) ==
    /\ tpc[t] = "try_match"
    /\ \E o \in InitOutcomes :
        /\ init_resources(o)
        /\ IF o # "ok"
           THEN /\ Raise(t, "IndexError")
                /\ Fault(FALSE)
                /\ calls' = [calls EXCEPT ![t] = @ \cup InitCalls(o)]
                /\ ai_companies' = ai_companies
           ELSE IF ~CollaboratorsReady
           THEN /\ tpc' = [tpc EXCEPT ![t] = "try_ok"]
                /\ calls' = [calls EXCEPT ![t] = @ \cup InitCalls(o)]
                /\ UNCHANGED <<exc, ai_companies, faults>>
           ELSE IF ~env.db_get
           THEN /\ Raise(t, NotCallable)
                /\ calls' = [calls EXCEPT ![t] = @ \cup InitCalls(o)]
                /\ UNCHANGED <<ai_companies, faults>>
           ELSE \E ok \in CallOutcomes :
                /\ Fault(ok)
                /\ calls' = [calls EXCEPT ![t] = @ \cup InitCalls(o) \cup {"companies.find"}]
                /\ IF ok
                   THEN /\ ai_companies' = [ai_companies EXCEPT ![t] = AiCompanies]
                        /\ tpc' = [tpc EXCEPT ![t] =
                                     IF AiCompanies = <<>> THEN "try_ok" ELSE "m_company"]
                        /\ exc' = exc
                   ELSE /\ Raise(t, "StoreError")
                        /\ ai_companies' = ai_companies
    /\ UNCHANGED <<server_vars, env_vars, docs, collection, task_mode, index_locals,
                   open_jobs, search_results, cutoff, runs, requeues, upserted,
                   last_mode, queried, glitches>>

\* jd_matching_agent, lines 256-269: the Open status of a company (line 260)
\* and, when it has one, its open jobs (line 266)
MatchCompany(t) ==
    /\ tpc[t] = "m_company"
    /\ LET company_id == Head(ai_companies[t]).id
           open_status_doc == OpenStatusDocs(company_id)
       IN \E o \in PairOutcomes :
            /\ o = "second_raises" => open_status_doc # <<>>
            /\ Fault(o = "ok")
            /\ calls' = [calls EXCEPT ![t] = @ \cup {"job_statuses.find"}
                            \cup (IF o # "first_raises" /\ open_status_doc # <<>>
                                  THEN {"jobs.find"} ELSE {})]
            /\ IF o # "ok"
               THEN /\ Raise(t, "StoreError")
                    /\ UNCHANGED <<ai_companies, open_jobs>>
               ELSE /\ exc' = exc
                    /\ IF open_status_doc = <<>>
                       THEN CompanyDone(t)
                       ELSE LET found == OpenJobsOf(company_id, open_status_doc[1].id)
                            IN IF found = <<>>
                               THEN CompanyDone(t)
                               ELSE /\ open_jobs' = [open_jobs EXCEPT ![t] = found]
                                    /\ tpc' = [tpc EXCEPT ![t] = "m_job"]
                                    /\ ai_companies' = ai_companies
    /\ UNCHANGED <<server_vars, handle_vars, env_vars, data_vars, task_mode, index_locals,
                   search_results, cutoff, runs, requeues, upserted, last_mode, queried,
                   glitches>>

\* what evaluating one job can do: the query answers, the query raises (caught
\* at line 308), or the embedding of line 279 raises (outside the try)
JobOutcomes ==
    (IF Budget >= 1 THEN {"encode_raises"} ELSE {}) \cup
    {IF ok THEN "ok" ELSE "query_raises" : ok \in IndexCallOutcomes}

\* jd_matching_agent, lines 271-296: one job up to its cutoff
MatchJob(t) ==
    /\ tpc[t] = "m_job"
    /\ \E points_found \in QueryPoints(collection) :
       LET job == Head(open_jobs[t])
           found == ResultsOfJob(points_found, job.id)
       IN IF StripEmpty(job.description)
          THEN /\ JobDone(t)
               /\ UNCHANGED <<exc, calls, search_results, cutoff, faults, glitches, queried>>
          ELSE \E o \in JobOutcomes :
               /\ faults' = IF o = "query_raises" THEN faults + 1 ELSE faults
               /\ glitches' = IF o = "encode_raises" THEN glitches + 1 ELSE glitches
               /\ calls' = [calls EXCEPT ![t] = @ \cup {"encode"}
                               \cup (IF o = "encode_raises" THEN {} ELSE {"query_points"})]
               /\ queried' = IF o = "encode_raises" THEN queried ELSE queried \cup {job.id}
               /\ CASE o = "encode_raises" ->
                         /\ Raise(t, "EmbeddingError")
                         /\ UNCHANGED <<ai_companies, open_jobs, search_results, cutoff>>
                    [] o = "query_raises" ->
                         /\ JobDone(t)
                         /\ UNCHANGED <<exc, search_results, cutoff>>
                    [] o = "ok" ->
                         /\ exc' = exc
                         /\ IF found = <<>> \/ ScoresOf(found) = {}
                            THEN /\ JobDone(t)
                                 /\ UNCHANGED <<search_results, cutoff>>
                            ELSE /\ search_results' = [search_results EXCEPT ![t] = found]
                                 /\ cutoff' = [cutoff EXCEPT ![t] = Cutoff(Max(ScoresOf(found)))]
                                 /\ tpc' = [tpc EXCEPT ![t] = "m_write"]
                                 /\ UNCHANGED <<ai_companies, open_jobs>>
    /\ UNCHANGED <<server_vars, handle_vars, env_vars, data_vars, task_mode, index_locals,
                   runs, requeues, upserted, last_mode>>

\* the $set of line 305
SetStatus(d, status) == [d EXCEPT !.resume_status = status]

\* applications.update_one({"_id": application_id}, ...) of line 305: the
\* collection has no attribute _get_id, so the filter holds the string of the
\* payload, and the documents it matches are those whose _id is that string
UpdateOne(ds, application_id, status) ==
    [a \in Apps |-> IF ds[a]._id = application_id THEN SetStatus(ds[a], status) ELSE ds[a]]

\* jd_matching_agent, lines 298-309: the status write of one result
MatchWrite(t) ==
    /\ tpc[t] = "m_write"
    /\ LET result == Head(search_results[t])
           rest == Tail(search_results[t])
           Continue == /\ search_results' = [search_results EXCEPT ![t] = rest]
                       /\ IF rest = <<>>
                          THEN /\ JobDone(t)
                               /\ cutoff' = [cutoff EXCEPT ![t] = 0]
                          ELSE UNCHANGED <<tpc, ai_companies, open_jobs, cutoff>>
       IN IF result.score = NoScore
          THEN /\ Continue
               /\ UNCHANGED <<docs, calls, faults>>
          ELSE \E ok \in CallOutcomes :
               /\ Fault(ok)
               /\ calls' = [calls EXCEPT ![t] = @ \cup {"update_one"}]
               /\ IF ok
                  THEN /\ docs' = UpdateOne(docs, result.application_id,
                                            StatusFor(result.score[1], cutoff[t]))
                       /\ Continue
                  ELSE /\ docs' = docs
                       /\ search_results' = [search_results EXCEPT ![t] = <<>>]
                       /\ cutoff' = [cutoff EXCEPT ![t] = 0]
                       /\ JobDone(t)
    /\ UNCHANGED <<server_vars, handle_vars, env_vars, collection, collection_created,
                   task_mode, exc, index_locals, runs, requeues, upserted,
                   last_mode, queried, glitches>>

\* ------------------------------------------------------------ _run_agent_task

\* line 38
TaskSuccess(t) ==
    /\ tpc[t] = "try_ok"
    /\ last_error' = None
    /\ tpc' = [tpc EXCEPT ![t] = "finally"]
    /\ UNCHANGED <<agent_running, last_run, rpc, agent_mode, resp, status_running,
                   handle_vars, env_vars, data_vars, task_mode, exc, calls, index_locals,
                   match_locals, ghost_vars>>

\* lines 40-42
TaskExcept(t) ==
    /\ tpc[t] = "except"
    /\ last_error' = exc[t]
    /\ tpc' = [tpc EXCEPT ![t] = "finally"]
    /\ UNCHANGED <<agent_running, last_run, rpc, agent_mode, resp, status_running,
                   handle_vars, env_vars, data_vars, task_mode, exc, calls, index_locals,
                   match_locals, ghost_vars>>

\* line 44: the finally clause stamps the run before it takes the lock
TaskFinally(t) ==
    /\ tpc[t] = "finally"
    /\ last_run' = last_run + 1
    /\ tpc' = [tpc EXCEPT ![t] = "release"]
    /\ UNCHANGED <<agent_running, last_error, rpc, agent_mode, resp, status_running,
                   handle_vars, env_vars, data_vars, task_mode, exc, calls, index_locals,
                   match_locals, ghost_vars>>

\* an end of the thread that does not give the guard back
TaskRelease_keeps_guard(t) ==
    /\ tpc[t] = "release"
    /\ tpc' = [tpc EXCEPT ![t] = "none"]
    /\ batch' = [batch EXCEPT ![t] = <<>>]
    /\ points' = [points EXCEPT ![t] = <<>>]
    /\ ai_companies' = [ai_companies EXCEPT ![t] = <<>>]
    /\ open_jobs' = [open_jobs EXCEPT ![t] = <<>>]
    /\ search_results' = [search_results EXCEPT ![t] = <<>>]
    /\ cutoff' = [cutoff EXCEPT ![t] = 0]
    /\ task_mode' = [task_mode EXCEPT ![t] = None]
    /\ exc' = [exc EXCEPT ![t] = None]
    /\ calls' = [calls EXCEPT ![t] = {}]
    /\ last_mode' = task_mode[t]
    /\ queried' = {}
    /\ UNCHANGED <<agent_running, last_run, last_error, rpc, agent_mode, resp,
                   status_running, handle_vars, env_vars, data_vars, runs, faults,
                   requeues, upserted, glitches>>

\* lines 45-47: the guard is cleared under the lock; the locals of the
\* thread end with it
TaskRelease(t) ==
    /\ tpc[t] = "release"
    /\ agent_running' = FALSE
    /\ tpc' = [tpc EXCEPT ![t] = "none"]
    /\ batch' = [batch EXCEPT ![t] = <<>>]
    /\ points' = [points EXCEPT ![t] = <<>>]
    /\ ai_companies' = [ai_companies EXCEPT ![t] = <<>>]
    /\ open_jobs' = [open_jobs EXCEPT ![t] = <<>>]
    /\ search_results' = [search_results EXCEPT ![t] = <<>>]
    /\ cutoff' = [cutoff EXCEPT ![t] = 0]
    /\ task_mode' = [task_mode EXCEPT ![t] = None]
    /\ exc' = [exc EXCEPT ![t] = None]
    /\ calls' = [calls EXCEPT ![t] = {}]
    /\ last_mode' = task_mode[t]
    /\ queried' = {}
    /\ UNCHANGED <<last_run, last_error, rpc, agent_mode, resp, status_running,
                   handle_vars, env_vars, data_vars, runs, faults, requeues, upserted,
                   glitches>>

\* ------------------------------------------------------------ environment

\* an operator re-queues a record: its status goes back to open, and the
\* rag_uploaded flag is cleared or left as it is
Requeue(a, clear) ==
    /\ Budget >= 1
    /\ docs[a].resume_status # "open"
    /\ docs' = [docs EXCEPT ![a].resume_status = "open",
                            ![a].rag_uploaded = IF clear THEN "false" ELSE @]
    /\ requeues' = requeues + 1
    /\ UNCHANGED <<server_vars, handle_vars, env_vars, collection, collection_created,
                   thread_vars, runs, faults, upserted, last_mode, queried, glitches>>

\* ------------------------------------------------------------ specifications

\* the steps of the task thread. On the handle of line 94 the matching agent
\* leaves at line 246, so lines 251-309 take no step
Agent(t) ==
    \/ IndexEntry(t)
    \/ IndexPoll(t)
    \/ IndexRecord(t)
    \/ IndexUpsert(t)
    \/ MatchEntry(t)
    \/ TaskSuccess(t)
    \/ TaskExcept(t)
    \/ TaskFinally(t)
    \/ TaskRelease(t)

\* the task of a run in mode index
IndexAgent(t) ==
    \/ IndexEntry(t)
    \/ IndexPoll(t)
    \/ IndexRecord(t)
    \/ IndexUpsert(t)
    \/ TaskSuccess(t)
    \/ TaskExcept(t)
    \/ TaskFinally(t)
    \/ TaskRelease(t)

\* the task of a run in mode matching
MatchAgent(t) ==
    \/ MatchEntry(t)
    \/ TaskSuccess(t)
    \/ TaskExcept(t)
    \/ TaskFinally(t)
    \/ TaskRelease(t)

\* jd_matching_agent, lines 256-309: the company, job and result loops,
\* reached only on a handle that answers get(name)
MatchLoop(t) ==
    \/ MatchCompany(t)
    \/ MatchJob(t)
    \/ MatchWrite(t)

\* the server under concurrent requests
\* the ?agent= parameter of the concurrent triggers: both pipelines, or a
\* value that is no mode
GuardModes == {"both", "bogus"}

NextServer ==
    \/ \E r \in Reqs, m \in GuardModes : RunAgentEnter(r, m)
    \/ \E r \in Reqs : RunAgentInvalid(r)
    \/ \E r \in Reqs : RunAgentStart(r)
    \/ \E r \in Reqs : RunAgentAnswer(r)
    \/ Status
    \/ \E t \in Reqs : Agent(t)

SpecServer == InitFew /\ [][NextServer]_vars

\* the server with its threads scheduled: a request handler that holds the
\* guard goes on to answer, and a started agent thread keeps running. The
\* triggers ask for both pipelines or carry an invalid mode; one application
\* has a resume URL and every collaborator initialises.
GuardDocs ==
    {[a \in Apps |-> Doc(MongoId("str", a), IF a = 1 THEN "http" ELSE "other", JobOf(a),
                         "open", "absent")]}
InitGuard ==
    /\ InitServer
    /\ env \in ServerEnvs
    /\ score = [a \in Apps |-> DefaultScore(a)]
    /\ s3_objects = Readable
    /\ docs \in GuardDocs
    /\ collection = {}
    /\ collection_created = FALSE
HandlerStep == \E r \in Reqs : RunAgentInvalid(r) \/ RunAgentStart(r) \/ RunAgentAnswer(r)
ThreadStep == \E t \in Reqs : Agent(t)
NextGuard ==
    \/ \E r \in Reqs, m \in GuardModes : RunAgentEnter(r, m)
    \/ HandlerStep
    \/ ThreadStep
SpecServerLive ==
    InitGuard /\ [][NextGuard]_vars /\ WF_vars(HandlerStep) /\ WF_vars(ThreadStep)

\* one client that triggers runs one after the other, and an operator who
\* re-queues records
Next ==
    \/ \E m \in ValidModes : RunAgentEnter(1, m)
    \/ RunAgentStart(1)
    \/ RunAgentAnswer(1)
    \/ Agent(1)
    \/ \E a \in Apps, clear \in BOOLEAN : Requeue(a, clear)

Spec == Init /\ [][Next]_vars

\* matching runs, one after the other, over an index built earlier, in the
\* process as written
NextMatch ==
    \/ RunAgentEnter(1, "matching")
    \/ RunAgentStart(1)
    \/ RunAgentAnswer(1)
    \/ MatchAgent(1)

SpecMatch == InitMatch /\ [][NextMatch]_vars

\* matching runs over applications to any of the jobs, also on a handle that
\* answers get(name)
NextJobs ==
    \/ NextMatch
    \/ MatchLoop(1)

SpecJobs == InitJobs /\ [][NextJobs]_vars

\* indexing runs triggered one after the other with nobody re-queueing
\* records; the agent thread, once started, keeps being scheduled
NextLive ==
    \/ RunAgentEnter(1, "index")
    \/ RunAgentStart(1)
    \/ RunAgentAnswer(1)
    \/ IndexAgent(1)

SpecLive == Init /\ [][NextLive]_vars /\ WF_vars(IndexAgent(1))

\* ------------------------------------------------------------ properties

\* eligibility for indexing as the data model states it: status open,
\* ragUploaded false or absent, resume reference URL-shaped
EligibleBySpec(d) ==
    /\ d.resume_status = "open"
    /\ d.rag_uploaded \notin {"true"}
    /\ d.resume = "http"
NoneEligible(ds) == \A a \in Apps : ~EligibleBySpec(ds[a])

ActiveThreads == {t \in Reqs : Running(t)}

\* C1: at most one agent execution is active at a time, and a trigger that
\* arrives while one is active is answered 409, starts no thread and leaves
\* nothing behind that would start one later.
C1_TriggerStep ==
    \A r \in Reqs :
        (/\ rpc[r] = "idle"
         /\ ActiveThreads # {}
         /\ <<resp[r], rpc[r]>>' # <<resp[r], rpc[r]>>)
        => (/\ resp'[r] = 409
            /\ rpc'[r] = "idle"
            /\ agent_mode' = agent_mode
            /\ tpc' = tpc)
C1_OneExecution ==
    /\ [](Cardinality(ActiveThreads) <= 1)
    /\ [][C1_TriggerStep]_vars
C1_Witness ==
    \E r \in Reqs, t \in Reqs : r # t /\ Running(t) /\ resp[r] = 409 /\ rpc[r] = "idle"

PointsOf(a) == {p \in collection : p.application_id.hex = a}

\* C2: the index holds at most one point per application record, also after
\* a record was re-queued and indexed again: once a record's point was
\* upserted, it has exactly one point.
C2_OnePointPerRecord ==
    \A a \in Apps :
        /\ Cardinality(PointsOf(a)) <= 1
        /\ upserted[a] > 0 => Cardinality(PointsOf(a)) = 1
C2_Witness ==
    \E a \in Apps : upserted[a] = 2 /\ requeues > 0 /\ Cardinality(collection) >= 2

IndexPcs == {"idx_poll", "idx_record", "idx_upsert"}
Indexing(t) == tpc[t] \in IndexPcs

\* C3: a step of the indexing agent changes a record only if it is the record
\* of the fetched batch being processed and is eligible (open, rag_uploaded
\* false or absent, URL-shaped resume), and the status it leaves is indexed or
\* failed; every other record is left as it was.
C3_IndexStep ==
    \A t \in Reqs :
        (Indexing(t) /\ requeues' = requeues)
        => \A a \in Apps :
             docs'[a] # docs[a]
             => /\ batch[t] # <<>>
                /\ a = Head(batch[t])
                /\ EligibleBySpec(docs[a])
                /\ docs'[a].resume_status \in {"indexed", "failed"}
C3_IndexingWritesEligibleOnly == [][C3_IndexStep]_vars
C3_Witness ==
    \E t \in Reqs, a, b \in Apps :
        /\ tpc[t] = "idx_upsert"
        /\ a \in PointApps(points[t])
        /\ docs[a].resume_status = "indexed"
        /\ docs[b].resume = "other"
        /\ docs[b].resume_status = "open"

\* the scored records that have a point of job j in the index, and the best
\* of their scores
ScoredOfJob(j) ==
    {a \in Apps : score[a] # NoScore /\ \E p \in collection :
                       p.application_id.hex = a /\ p.job_id = j}
BestOfJob(j) == Max({score[a][1] : a \in ScoredOfJob(j)})
Decision(a, j) ==
    IF score[a][1] * 100 >= BestOfJob(j) * CutoffPct THEN "selected" ELSE "rejected"

\* the jobs the matching pipeline is to evaluate: those of a company with AI
\* features enabled whose status is the Open status of that company
IsEvaluable(job) ==
    /\ \E i \in 1..Len(Companies) :
          Companies[i].id = job.company_id /\ Companies[i].aiFeaturesEnabled
    /\ \E i \in 1..Len(JobStatuses) :
          /\ JobStatuses[i].company_id = job.company_id
          /\ JobStatuses[i].jobStatus = "Open"
          /\ JobStatuses[i].id = job.status
EvaluableJobs == {Jobs[i].id : i \in {k \in 1..Len(Jobs) : IsEvaluable(Jobs[k])}}
\* the jobs to evaluate whose description holds text once its markup is
\* stripped
DescribedJobs ==
    {Jobs[i].id : i \in {k \in 1..Len(Jobs) :
                            IsEvaluable(Jobs[k]) /\ clean_html(Jobs[k].description) # <<>>}}
\* a matching run has ended, every collaborator is initialised and no call
\* of a collaborator has raised
MatchingRan ==
    /\ last_mode = "matching"
    /\ applications # None /\ qdrant # None /\ model # None
    /\ faults = 0 /\ glitches = 0

InIndexRun(t) == tpc[t] = "try_index" \/ Indexing(t)
HandlesReady == applications # None /\ qdrant # None /\ model # None

\* C6 (as claimed): every indexing run ends, and when it ends no record is
\* eligible.
C6_EndStep_claimed ==
    \A t \in Reqs : (InIndexRun(t) /\ ~InIndexRun(t)') => NoneEligible(docs')
C6_RunsToExhaustion_claimed ==
    /\ \A t \in Reqs : InIndexRun(t) ~> ~InIndexRun(t)
    /\ [][C6_EndStep_claimed]_vars

\* C6 (amended): every indexing run ends; a run that passed the entry checks
\* and returns (no exception leaving it) returns from a poll that found no
\* eligible record, and no record is eligible then.
C6_ReturnStep ==
    \A t \in Reqs :
        (InIndexRun(t) /\ ~InIndexRun(t)' /\ tpc'[t] # "except" /\ HandlesReady')
        => /\ tpc[t] = "idx_poll"
           /\ FindBatch(docs) = <<>>
           /\ NoneEligible(docs')
C6_RunsToExhaustion ==
    /\ \A t \in Reqs : InIndexRun(t) ~> ~InIndexRun(t)
    /\ [][C6_ReturnStep]_vars
\* a backlog of three records, more than one batch, was worked off
C6_Witness ==
    \E t \in Reqs :
        /\ tpc[t] = "try_ok"
        /\ task_mode[t] = "index"
        /\ NApps > BATCH_SIZE
        /\ \A a \in Apps : docs[a].resume = "http"
                           /\ docs[a].resume_status \in {"indexed", "failed"}

InitIndexCalls == {"collection_exists", "create_collection"}
IndexCalls == InitIndexCalls \cup {"upsert", "query_points"}
FirstPollOfNothing(t) ==
    /\ tpc[t] = "idx_poll"
    /\ "count_documents" \notin calls[t]
    /\ NoneEligible(docs)
    /\ tpc'[t] # tpc[t]

\* C7 (as claimed): the first poll of a run over a store without eligible
\* records ends the run, and the run has written nothing to the store and
\* called the vector index not at all.
C7_PollStep_claimed ==
    \A t \in Reqs :
        FirstPollOfNothing(t)
        => /\ ~Indexing(t)'
           /\ docs' = docs /\ collection' = collection
           /\ "update_one" \notin calls'[t]
           /\ calls'[t] \cap IndexCalls = {}
C7_NothingToIndex_claimed == [][C7_PollStep_claimed]_vars

\* C7 (amended): ... and the only calls the run has made to the vector index
\* are those of the lazy initialisation (collection_exists, create_collection):
\* no upsert and no query.
C7_PollStep ==
    \A t \in Reqs :
        FirstPollOfNothing(t)
        => /\ ~Indexing(t)'
           /\ docs' = docs /\ collection' = collection
           /\ "update_one" \notin calls'[t]
           /\ calls'[t] \cap IndexCalls \subseteq InitIndexCalls
C7_NothingToIndex == [][C7_PollStep]_vars
C7_Witness ==
    \E t \in Reqs :
        /\ tpc[t] = "try_ok"
        /\ task_mode[t] = "index"
        /\ "find" \in calls[t]
        /\ "collection_exists" \in calls[t]
        /\ \A a \in Apps : docs[a].resume = "other" /\ docs[a].resume_status = "open"

\* a step of a run that follows a run of the same mode, nothing having been
\* re-queued
RerunStep(t) == Running(t) /\ last_mode = task_mode[t] /\ requeues' = 0

\* C8: a run that follows a run of the same pipeline changes no
\* record and no point.
C8_Step_claimed ==
    \A t \in Reqs : RerunStep(t) => (docs' = docs /\ collection' = collection)
C8_Idempotent_claimed == [][C8_Step_claimed]_vars

\* C9: a run that could not do its work (a collaborator not initialised, or
\* a store or index call that raised) ends with an error recorded.
C9_ErrorRecorded ==
    \A t \in Reqs :
        (tpc[t] = "finally" /\ runs = 1 /\ (~HandlesReady \/ faults > 0))
        => last_error # None

DataCalls == {"count_documents", "find", "get_object", "update_one", "upsert",
              "query_points", "companies.find", "job_statuses.find", "jobs.find", "encode"}
EntryPcs == {"none", "try_index", "try_match", "try_ok", "except", "finally", "release"}

\* C10: while the store, the index or the model is not initialised, an agent
\* that was entered has returned at once (or init_resources raised before the
\* entry checks): no thread is inside a pipeline, no
\* run has read a record, written a field, upserted or queried, and the
\* records and the index are as they were.
C10_AbortAtEntry ==
    ~HandlesReady
    => /\ \A t \in Reqs : tpc[t] \in EntryPcs /\ calls[t] \cap DataCalls = {}
       /\ collection = {}
       /\ \A a \in Apps : docs[a].resume_status = "open" /\ docs[a].rag_uploaded = "absent"
C10_Witness ==
    \E t \in Reqs :
        /\ tpc[t] = "try_ok"
        /\ task_mode[t] = "both"
        /\ applications # None /\ qdrant # None /\ model = None

\* the records whose point was built in the batch a thread is working on and
\* whose upsert has not been attempted yet
AwaitingUpsert(t) ==
    IF tpc[t] \in {"idx_record", "idx_upsert"} THEN PointApps(points[t]) ELSE {}

\* C11: no record has ragUploaded true while the upsert of the batch that
\* holds its point has not been attempted yet.
C11_FlagAfterUpsert ==
    \A t \in Reqs : \A a \in AwaitingUpsert(t) : docs[a].rag_uploaded # "true"

\* C12: when no indexing run is under way, every record with status indexed
\* has its point in the index or has ragUploaded not set (so that a later run
\* picks it up again).
C12_IndexedHasPoint ==
    (\A t \in Reqs : ~InIndexRun(t))
    => \A a \in Apps :
        docs[a].resume_status = "indexed"
        => (PointsOf(a) # {} \/ docs[a].rag_uploaded # "true")

\* a failure while a record of the batch is processed does not leave the loop
C13_RecordStep ==
    \A t \in Reqs : tpc[t] = "idx_record" => tpc'[t] # "except"

\* C13: a record for which a step of the per-record chain failed is marked
\* failed and has no point among those the batch upserts, and the failure
\* does not abort the batch.
C13_FailedRecordNoPoint ==
    /\ [](\A t \in Reqs : \A a \in AwaitingUpsert(t) : docs[a].resume_status # "failed")
    /\ [][C13_RecordStep]_vars

MatchPcs == {"m_company", "m_job", "m_write"}

\* record a has a point whose payload names job j
HasPointOfJob(a, j) ==
    \E p \in collection : p.application_id = str(docs[a]._id) /\ p.job_id = j

\* a step of the matching pipeline changes a record only if the record has a
\* point filed under the job being evaluated
C17_WriteStep ==
    \A t \in Reqs : \A a \in Apps :
        (tpc[t] \in MatchPcs /\ docs'[a] # docs[a])
        => /\ tpc[t] = "m_write"
           /\ HasPointOfJob(a, Head(open_jobs[t]).id)

\* C17: the jobs evaluated are open jobs of AI-enabled companies, and while
\* job j is evaluated status is written only to records whose point's payload
\* names j.
C17_WritesOwnJobOnly ==
    /\ [](\A t \in Reqs : \A i \in 1..Len(open_jobs[t]) :
            open_jobs[t][i].id \in EvaluableJobs)
    /\ [](queried \subseteq EvaluableJobs)
    /\ [][C17_WriteStep]_vars
\* after a matching run an application to the open job j1 is decided, while
\* applications to the closed job j2 and to j3 of the company without AI
\* features are as they were
C17_Witness ==
    \E a, b, c \in Apps :
        /\ last_mode = "matching"
        /\ docs[a].jobID = "j1" /\ docs[a].resume_status \in {"selected", "rejected"}
        /\ docs[b].jobID = "j2" /\ docs[b].resume_status = "indexed"
        /\ docs[c].jobID = "j3" /\ docs[c].resume_status = "indexed"

\* a trigger that enters while the guard is free is not rejected
C19_AcceptStep ==
    \A r \in Reqs :
        (rpc[r] = "idle" /\ ~agent_running /\ <<resp[r], rpc[r]>>' # <<resp[r], rpc[r]>>)
        => (rpc'[r] = "claimed" /\ resp'[r] # 409)

\* C19: whenever the guard is set it is cleared again later, whether the
\* agent task ends normally or with an exception, and a trigger that arrives
\* while it is clear is accepted.
C19_GuardReleased ==
    /\ agent_running ~> ~agent_running
    /\ [][C19_AcceptStep]_vars
\* a second run has been accepted after a run that ended with an exception
C19_Witness ==
    \E t \in Reqs :
        /\ last_run = 1 /\ last_error # None
        /\ Running(t) /\ resp[t] = 202 /\ runs = 2

\* an execution has been accepted and has not finished: a handler with a
\* valid mode holds the guard, or an agent thread is running
ExecutionAccepted ==
    \E t \in Reqs : Running(t) \/ (rpc[t] = "claimed" /\ agent_mode[t] \in ValidModes)

\* C20: a trigger is answered 409, and the status query reports running,
\* only while an execution has been accepted and has not finished.
C20_ReportStep ==
    /\ \A r \in Reqs : (resp[r] # 409 /\ resp'[r] = 409) => ExecutionAccepted
    /\ (~status_running /\ status_running') => ExecutionAccepted
C20_BusyOnlyWhileRunning == [][C20_ReportStep]_vars

====
